---- MODULE Spec2Model ----
(***************************************************************************)
(* A model of the next-train web application (src/app.js): the merge of    *)
(* the timetable records into the station catalog, the selection state,    *)
(* the resolution of a direction's departures against the wall clock, the  *)
(* cyclic navigation through them and the countdown display.               *)
(*                                                                         *)
(* JavaScript values are modelled as follows.                              *)
(*   - null / undefined: the empty sequence Null; a present value x: <<x>>.*)
(*   - a "HH:MM" string: the sequence of its characters.                   *)
(*   - array indices are the 0-based indices of the code; the element at   *)
(*     0-based index i of an array a is At(a, i).                          *)
(*   - a translated text window.i18n.t(key, params): the record            *)
(*     [key |-> key, params |-> params].                                   *)
(*   - an object reference into the catalog: the path of indices to it.    *)
(***************************************************************************)
EXTENDS Integers, Sequences, FiniteSets, TLC

VARIABLES
    schedules,  \* the records of data/timetable.jsonl, as the server holds them
    now,        \* the wall clock, [h, m, s]: what new Date() reads
    pc,         \* where init() stands: "loadData", "getUserLocation", and once it has
                \* returned "running", "fallback" or "error"
    app         \* the NextTrainApp object and the elements it writes

vars == <<schedules, now, pc, app>>

----------------------------------------------------------------------------
(* Bounds of the model. *)

\* A record holds at most MaxTimes departure times.
MaxTimes == 2
\* startCountdown is run at most MaxTimers times.
MaxTimers == 2

\* The most records a timetable of the catalog sessions has.
MaxRecords == 3

----------------------------------------------------------------------------
(* JavaScript values. *)

Null == <<>>

Some(x) == <<x>>

\* undefined, the value of a field a record of the timetable does not have: like null,
\* it is the value without elements, which only the code's own tests (!times) take for
\* an empty list.
Undefined == Null

Val(o) == o[1]

\* a[i] for a 0-based index i; undefined (Null) outside the array.
At(a, i) == IF i >= 0 /\ i < Len(a) THEN Some(a[i + 1]) ELSE Null

Abs(x) == IF x < 0 THEN 0 - x ELSE x

----------------------------------------------------------------------------
(* Time strings. *)

DigitChars == <<"0", "1", "2", "3", "4", "5", "6", "7", "8", "9">>

DigitValue(c) == (CHOOSE i \in 1..10 : DigitChars[i] = c) - 1

\* Number(str) on a string of decimal digits.
RECURSIVE Number(_)
Number(str) ==
    IF str = <<>> THEN 0
    ELSE Number(SubSeq(str, 1, Len(str) - 1)) * 10 + DigitValue(str[Len(str)])

\* n.toString() for an n >= 0.
RECURSIVE NumberToString(_)
NumberToString(n) ==
    IF n < 10 THEN <<DigitChars[n + 1]>>
    ELSE NumberToString(n \div 10) \o <<DigitChars[(n % 10) + 1]>>

\* str.padStart(2, '0')
PadStart2(str) == IF Len(str) < 2 THEN <<"0">> \o str ELSE str

\* str.split(':'): the parts of str between the colons.
RECURSIVE Split(_)
Split(str) ==
    IF \A i \in 1..Len(str) : str[i] # ":" THEN <<str>>
    ELSE LET c == CHOOSE i \in 1..Len(str) :
                      str[i] = ":" /\ \A j \in 1..(i - 1) : str[j] # ":"
         IN  <<SubSeq(str, 1, c - 1)>> \o Split(SubSeq(str, c + 1, Len(str)))

timeToMinutes(timeStr) ==
    LET parts == Split(timeStr)
    IN  Number(parts[1]) * 60 + Number(parts[2])

minutesToTime(minutes) ==
    PadStart2(NumberToString(minutes \div 60)) \o <<":">> \o PadStart2(NumberToString(minutes % 60))

----------------------------------------------------------------------------
(* The inputs: the wall clock, the timetable records and routes.json. *)

\* The hours of the day the model uses: one of one digit, the next of two.
Hours == {9, 10}

\* The minutes of the hour the model uses: the first and the last.
Minutes == {0, 59}

\* The seconds of the minute the model uses: the first two and the last.
Seconds == {0, 1, 59}

\* The readings of the wall clock: getHours(), getMinutes(), getSeconds().
Clock == [h : Hours, m : Minutes, s : Seconds]

SecondsOfDay(date) == (date.h * 60 + date.m) * 60 + date.s

\* The "HH:MM" strings of the timetable.
TimeStrings == {minutesToTime(h * 60 + m) : h \in Hours, m \in Minutes}

\* The schedule_times of a record: in any order, repeats allowed.
TimesLists == UNION {[1..n -> TimeStrings] : n \in 0..MaxTimes}

\* The operating_time of a weekday record, the string compared at src/app.js:103.
Weekday == <<"weekday">>

\* The operating_time of the other records of the timetable (weekend service).
Weekend == <<"weekend">>

\* The destinations of the records.
Destinations == {<<"p">>, <<"q">>}

\* "09:00", "09:59" and "10:00".
T0900 == <<"0", "9", ":", "0", "0">>

T0959 == <<"0", "9", ":", "5", "9">>

T1000 == <<"1", "0", ":", "0", "0">>

\* The weekday records of one direction: any schedule_times.
WeekdayRecords ==
    [station : {<<"a">>}, route : {<<"1">>}, destination : {<<"p">>},
     operating_time : {Weekday}, schedule_times : TimesLists]

\* The timetables of one weekday record.
DirectionDatasets == {<<r>> : r \in WeekdayRecords}

\* Two weekday records of one direction: one with three times out of order, one
\* with none.
SampleWeekdayRecords ==
    [station : {<<"a">>}, route : {<<"1">>}, destination : {<<"p">>},
     operating_time : {Weekday}, schedule_times : {<<T1000, T0900, T0959>>, <<>>}]

SampleWeekdayRecord ==
    [station |-> <<"a">>, route |-> <<"1">>, destination |-> <<"p">>,
     operating_time |-> Weekday, schedule_times |-> <<T1000, T0900, T0959>>]

\* Records of weekend service, to either destination.
WeekendRecords ==
    [station : {<<"a">>}, route : {<<"1">>}, destination : Destinations,
     operating_time : {Weekend}, schedule_times : {<<T0959, T0900>>}]

\* The timetables of the sessions: one weekday record; one weekend record; a weekday
\* and a weekend record, in either order.
Datasets ==
    {<<r>> : r \in SampleWeekdayRecords \cup WeekendRecords}
        \cup {<<SampleWeekdayRecord, w>> : w \in WeekendRecords}
        \cup {<<w, SampleWeekdayRecord>> : w \in WeekendRecords}

\* The well-formed records of the catalog sessions: station "a" with line "1" to "p"
\* (two weekday records of different times and a weekend record) and to "q" and with
\* line "X"; station "b"; station "c", on weekends only.
CatalogRecords ==
    {[station |-> <<"a">>, route |-> <<"1">>, destination |-> <<"p">>,
      operating_time |-> Weekday, schedule_times |-> <<T0900>>],
     [station |-> <<"a">>, route |-> <<"1">>, destination |-> <<"p">>,
      operating_time |-> Weekday, schedule_times |-> <<T1000, T0959>>],
     [station |-> <<"a">>, route |-> <<"1">>, destination |-> <<"p">>,
      operating_time |-> Weekend, schedule_times |-> <<T0959>>],
     [station |-> <<"a">>, route |-> <<"1">>, destination |-> <<"q">>,
      operating_time |-> Weekday, schedule_times |-> <<T0900>>],
     [station |-> <<"a">>, route |-> <<"X">>, destination |-> <<"p">>,
      operating_time |-> Weekday, schedule_times |-> <<T1000, T0959>>],
     [station |-> <<"b">>, route |-> <<"1">>, destination |-> <<"p">>,
      operating_time |-> Weekday, schedule_times |-> <<T0900>>],
     [station |-> <<"c">>, route |-> <<"X">>, destination |-> <<"q">>,
      operating_time |-> Weekend, schedule_times |-> <<T1000, T0959>>]}

\* The fields a record of the timetable has to have.
RequiredFields == {"station", "route", "destination", "operating_time", "schedule_times"}

\* The lines of the timetable that parse but lack one of the fields.
MalformedRecords ==
    {[[station |-> <<"b">>, route |-> <<"1">>, destination |-> <<"p">>,
       operating_time |-> Weekday, schedule_times |-> <<T0900>>] EXCEPT ![f] = Undefined] :
         f \in RequiredFields}

\* The timetables of the catalog sessions: up to MaxRecords lines, none included.
CatalogDatasets ==
    UNION {[1..n -> CatalogRecords \cup MalformedRecords] : n \in 0..MaxRecords}

\* The timetable of the network sessions.  Station "a" has line "1", to "p" and to "q",
\* and line "X"; station "b" has line "1" and, on weekends only, line "X".
NetworkTimetable ==
    << [station |-> <<"a">>, route |-> <<"1">>, destination |-> <<"p">>,
        operating_time |-> Weekday, schedule_times |-> <<T1000, T0900, T0959>>],
       [station |-> <<"a">>, route |-> <<"1">>, destination |-> <<"q">>,
        operating_time |-> Weekday, schedule_times |-> <<T0900>>],
       [station |-> <<"a">>, route |-> <<"X">>, destination |-> <<"q">>,
        operating_time |-> Weekday, schedule_times |-> <<T0959, T1000>>],
       [station |-> <<"b">>, route |-> <<"1">>, destination |-> <<"p">>,
        operating_time |-> Weekday, schedule_times |-> <<T0900>>],
       [station |-> <<"b">>, route |-> <<"X">>, destination |-> <<"p">>,
        operating_time |-> Weekend, schedule_times |-> <<T0959>>] >>

\* The timetables of the network sessions: that one, or its lines in the reverse order.
NetworkDatasets ==
    {NetworkTimetable,
     [i \in 1..Len(NetworkTimetable) |-> NetworkTimetable[Len(NetworkTimetable) + 1 - i]]}

\* When the page of a network session is opened: before the second departure of the
\* day, in the minute of the last, and after it.
NetworkClock ==
    {[h |-> 9, m |-> 0, s |-> 1], [h |-> 10, m |-> 0, s |-> 59], [h |-> 10, m |-> 59, s |-> 0]}

\* The station names of the search sessions, nine of which contain "a".
SearchNames ==
    << <<"b">>, <<"a">>, <<"A">>, <<"a", "a">>, <<"a", "A">>, <<"a", "b">>, <<"b", "a">>,
       <<"A", "b">>, <<"a", "a", "b">>, <<"a", " ", "b">>, <<"b", "a", "b">>,
       <<"a", "b", "a">> >>

\* The record of a station of the search sessions.
SearchRecord(name) ==
    [station |-> name, route |-> <<"1">>, destination |-> <<"p">>,
     operating_time |-> Weekday, schedule_times |-> <<T0900>>]

\* The timetables of the search sessions: the first stations of SearchNames, or the
\* last ones in the reverse order.
SearchDatasets ==
    {[i \in 1..n |-> SearchRecord(SearchNames[i])] : n \in 0..Len(SearchNames)}
        \cup {[i \in 1..n |-> SearchRecord(SearchNames[Len(SearchNames) + 1 - i])] :
                  n \in 0..Len(SearchNames)}

\* What is typed in a search input.
TypedValues ==
    {<<>>, <<" ">>, <<"a">>, <<" ", "a", " ">>, <<"A">>, <<"a", "b">>, <<"c">>}

\* Latitudes and longitudes are in units of 0.0001 degree.  All the stations and the
\* user are on the meridian of the default longitude, where the haversine formula
\* gives R * |lat2 - lat1| * (pi / 180): distances are in units of that.
DefaultLat == 399042

DefaultLng == 1164074

\* routes.json: the coordinates of station "a" and the colour of line "1".
RoutesData ==
    [coordinates |-> (<<"a">> :> <<DefaultLat + 2, DefaultLng>>),
     lines |-> <<[lineName |-> <<"1">>, lineColor |-> "#c23a30"]>>]

\* Where geolocation may find the user.
UserLocations == {[lat |-> DefaultLat + d, lng |-> DefaultLng] : d \in {1}}

\* Where it may find the user in the catalog sessions: at the default place, where the
\* stations without coordinates are; as far from it as from station "a"; beyond "a".
NearbyLocations == {[lat |-> DefaultLat + d, lng |-> DefaultLng] : d \in {0, 1, 3}}

----------------------------------------------------------------------------
(* window.i18n.t(key, params): the text of a key with its parameters. *)

T(key, params) == [key |-> key, params |-> params]

\* A text that is no translation: the string itself.
Literal(str) == [key |-> "", params |-> <<str>>]

\* /^\d+$/.test(route)
IsNumeric(route) ==
    /\ Len(route) > 0
    /\ \A i \in 1..Len(route) : \E j \in 1..10 : DigitChars[j] = route[i]

formatLineName(route) ==
    IF IsNumeric(route) THEN T("lineNameNumeric", <<route>>)
    ELSE T("lineNameNonNumeric", <<route>>)

----------------------------------------------------------------------------
(* The merge of the records into the catalog. *)

\* A Set that keeps the repeats.
UniqueKeepsRepeats(seq) == seq

\* The elements of seq in first-seen order, each once: Array.from(new Set(seq)).
RECURSIVE Unique(_)
Unique(seq) ==
    IF seq = <<>> THEN <<>>
    ELSE LET front == Unique(SubSeq(seq, 1, Len(seq) - 1))
             last == seq[Len(seq)]
         IN  IF \E i \in 1..Len(front) : front[i] = last THEN front
             ELSE Append(front, last)

\* The 1-based place of the direction to a destination in directions, 0 if none.
DirectionPlace(directions, destination) ==
    IF \E i \in 1..Len(directions) : directions[i].direction = destination
    THEN CHOOSE i \in 1..Len(directions) : directions[i].direction = destination
    ELSE 0

\* A groupSchedulesByDirection that takes the times of a record of any operating time.
RECURSIVE groupSchedulesOfAnyOperatingTime(_)
groupSchedulesOfAnyOperatingTime(lineSchedules) ==
    IF lineSchedules = <<>> THEN <<>>
    ELSE LET before == groupSchedulesOfAnyOperatingTime(
                           SubSeq(lineSchedules, 1, Len(lineSchedules) - 1))
             schedule == lineSchedules[Len(lineSchedules)]
             direction == schedule.destination
             directions ==
                 IF DirectionPlace(before, direction) = 0
                 THEN Append(before, [direction |-> direction,
                                      schedule |-> [weekday |-> [times |-> <<>>]]])
                 ELSE before
             place == DirectionPlace(directions, direction)
         IN  [directions EXCEPT ![place].schedule.weekday.times = schedule.schedule_times]

\* A groupSchedulesByDirection in which the first weekday record with times wins.
RECURSIVE groupSchedulesFirstWins(_)
groupSchedulesFirstWins(lineSchedules) ==
    IF lineSchedules = <<>> THEN <<>>
    ELSE LET before == groupSchedulesFirstWins(SubSeq(lineSchedules, 1, Len(lineSchedules) - 1))
             schedule == lineSchedules[Len(lineSchedules)]
             direction == schedule.destination
             directions ==
                 IF DirectionPlace(before, direction) = 0
                 THEN Append(before, [direction |-> direction,
                                      schedule |-> [weekday |-> [times |-> <<>>]]])
                 ELSE before
             place == DirectionPlace(directions, direction)
         IN  IF schedule.operating_time = Weekday /\ directions[place].schedule.weekday.times = <<>>
             THEN [directions EXCEPT ![place].schedule.weekday.times = schedule.schedule_times]
             ELSE directions

RECURSIVE groupSchedulesByDirection(_)
groupSchedulesByDirection(lineSchedules) ==
    IF lineSchedules = <<>> THEN <<>>
    ELSE LET before == groupSchedulesByDirection(SubSeq(lineSchedules, 1, Len(lineSchedules) - 1))
             schedule == lineSchedules[Len(lineSchedules)]
             direction == schedule.destination
             directions ==
                 IF DirectionPlace(before, direction) = 0
                 THEN Append(before, [direction |-> direction,
                                      schedule |-> [weekday |-> [times |-> <<>>]]])
                 ELSE before
             place == DirectionPlace(directions, direction)
         IN  IF schedule.operating_time = Weekday
             THEN [directions EXCEPT ![place].schedule.weekday.times = schedule.schedule_times]
             ELSE directions

\* A mergeData that gives every station the routes of the whole timetable.
mergeDataRoutesOfAll(routesData, records) ==
    LET allStationNames == Unique([i \in 1..Len(records) |-> records[i].station])
        Station(stationName) ==
            LET hasCoordinates == stationName \in DOMAIN routesData.coordinates
                lat == IF hasCoordinates THEN routesData.coordinates[stationName][1] ELSE DefaultLat
                lng == IF hasCoordinates THEN routesData.coordinates[stationName][2] ELSE DefaultLng
                stationSchedules == SelectSeq(records, LAMBDA r : r.station = stationName)
                uniqueRoutes == Unique([i \in 1..Len(records) |-> records[i].route])
                Line(route) ==
                    LET known == \E i \in 1..Len(routesData.lines) : routesData.lines[i].lineName = route
                        line == routesData.lines[CHOOSE i \in 1..Len(routesData.lines) :
                                    /\ routesData.lines[i].lineName = route
                                    /\ \A j \in 1..(i - 1) : routesData.lines[j].lineName # route]
                        lineSchedules == SelectSeq(stationSchedules, LAMBDA r : r.route = route)
                    IN  [lineName |-> formatLineName(route),
                         route |-> route,
                         lineColor |-> IF known THEN line.lineColor ELSE "#999999",
                         directions |-> groupSchedulesByDirection(lineSchedules)]
            IN  [name |-> stationName, lat |-> lat, lng |-> lng,
                 lines |-> [i \in 1..Len(uniqueRoutes) |-> Line(uniqueRoutes[i])],
                 distance |-> Null]
    IN  [stations |-> [i \in 1..Len(allStationNames) |-> Station(allStationNames[i])]]

mergeData(routesData, records) ==
    LET allStationNames == Unique([i \in 1..Len(records) |-> records[i].station])
        Station(stationName) ==
            LET hasCoordinates == stationName \in DOMAIN routesData.coordinates
                lat == IF hasCoordinates THEN routesData.coordinates[stationName][1] ELSE DefaultLat
                lng == IF hasCoordinates THEN routesData.coordinates[stationName][2] ELSE DefaultLng
                stationSchedules == SelectSeq(records, LAMBDA r : r.station = stationName)
                uniqueRoutes == Unique([i \in 1..Len(stationSchedules) |-> stationSchedules[i].route])
                Line(route) ==
                    LET known == \E i \in 1..Len(routesData.lines) : routesData.lines[i].lineName = route
                        line == routesData.lines[CHOOSE i \in 1..Len(routesData.lines) :
                                    /\ routesData.lines[i].lineName = route
                                    /\ \A j \in 1..(i - 1) : routesData.lines[j].lineName # route]
                        lineSchedules == SelectSeq(stationSchedules, LAMBDA r : r.route = route)
                    IN  [lineName |-> formatLineName(route),
                         route |-> route,
                         lineColor |-> IF known THEN line.lineColor ELSE "#999999",
                         directions |-> groupSchedulesByDirection(lineSchedules)]
            IN  [name |-> stationName, lat |-> lat, lng |-> lng,
                 lines |-> [i \in 1..Len(uniqueRoutes) |-> Line(uniqueRoutes[i])],
                 distance |-> Null]
    IN  [stations |-> [i \in 1..Len(allStationNames) |-> Station(allStationNames[i])]]

----------------------------------------------------------------------------
(* The application object.  The methods of NextTrainApp are operators on `this`, *)
(* the record of its fields and of the elements it writes, read at the clock     *)
(* reading `date`; each gives `this` as the method leaves it.                    *)

\* this, as the constructor leaves it.  The elements hold what index.html (not part
\* of the sources) gives them; errorEl is the message showError has shown, if any.
\* stationInput is the value typed in the search of the location fallback and
\* searchResults the station names of the buttons it shows; editInput is the value
\* typed in the station name while it is edited and editResults the station names of
\* the suggestions shown under it.
InitialElement == [textContent |-> T("index.html", <<>>), departed |-> FALSE]

NewApp ==
    [data |-> Null,
     userLocation |-> Null,
     nearestStation |-> Null,
     selectedLine |-> Null,
     selectedDirection |-> Null,
     currentTrainIndex |-> 0,
     timers |-> 0,
     listeners |-> 0,
     trainTimeEl |-> InitialElement,
     countdownEl |-> InitialElement,
     errorEl |-> Null,
     stationInput |-> Null,
     searchResults |-> <<>>,
     editInput |-> Null,
     editResults |-> <<>>]

\* The catalog objects the references stand for.
StationAt(this, ref) == Val(this.data).stations[ref.station]

LineAt(this, ref) == Val(this.data).stations[ref.station].lines[ref.line]

DirectionAt(this, ref) ==
    Val(this.data).stations[ref.station].lines[ref.line].directions[ref.direction]

\* station.lines[0] of the station at a place of the catalog, and line.directions[0].
FirstLine(place) == [station |-> place, line |-> 1]

FirstDirection(line) == [station |-> line.station, line |-> line.line, direction |-> 1]

currentTimeOf(date) == date.h * 60 + date.m

\* sorted with x put after the elements that do not compare greater than it: the
\* stable order of trains.sort((a, b) => a.minutes - b.minutes).
RECURSIVE InsertTrain(_, _)
InsertTrain(sorted, x) ==
    IF sorted = <<>> THEN <<x>>
    ELSE IF sorted[Len(sorted)].minutes - x.minutes > 0
         THEN Append(InsertTrain(SubSeq(sorted, 1, Len(sorted) - 1), x), sorted[Len(sorted)])
         ELSE Append(sorted, x)

RECURSIVE SortTrains(_)
SortTrains(trains) ==
    IF trains = <<>> THEN <<>>
    ELSE InsertTrain(SortTrains(SubSeq(trains, 1, Len(trains) - 1)), trains[Len(trains)])

\* A getAllTrains that leaves the trains in the order of the times.
getAllTrainsUnsorted(this, date) ==
    LET currentTime == currentTimeOf(date)
        times == DirectionAt(this, Val(this.selectedDirection)).schedule.weekday.times
    IN  IF times = Undefined \/ Len(times) = 0 THEN <<>>
        ELSE [i \in 1..Len(times) |->
                 LET minutes == timeToMinutes(times[i])
                 IN  [time |-> times[i], minutes |-> minutes, isPast |-> minutes <= currentTime]]

getAllTrains(this, date) ==
    LET currentTime == currentTimeOf(date)
        times == DirectionAt(this, Val(this.selectedDirection)).schedule.weekday.times
    IN  IF times = Undefined \/ Len(times) = 0 THEN <<>>
        ELSE SortTrains([i \in 1..Len(times) |->
                 LET minutes == timeToMinutes(times[i])
                 IN  [time |-> times[i], minutes |-> minutes, isPast |-> minutes <= currentTime]])

\* A findIndex that takes a train of the current minute for one still to come.
FindIndexAfterOrAt(allTrains, currentTime) ==
    IF \E i \in 1..Len(allTrains) : allTrains[i].minutes >= currentTime
    THEN (CHOOSE i \in 1..Len(allTrains) :
              /\ allTrains[i].minutes >= currentTime
              /\ \A j \in 1..(i - 1) : ~(allTrains[j].minutes >= currentTime)) - 1
    ELSE -1

\* allTrains.findIndex(train => train.minutes > currentTime): 0-based, -1 if none.
FindIndexAfter(allTrains, currentTime) ==
    IF \E i \in 1..Len(allTrains) : allTrains[i].minutes > currentTime
    THEN (CHOOSE i \in 1..Len(allTrains) :
              /\ allTrains[i].minutes > currentTime
              /\ \A j \in 1..(i - 1) : ~(allTrains[j].minutes > currentTime)) - 1
    ELSE -1

\* A getNextTrainIndex that returns what findIndex returns, -1 included.
getNextTrainIndexNoDefault(this, date) ==
    LET allTrains == getAllTrains(this, date)
        currentTime == currentTimeOf(date)
    IN  FindIndexAfter(allTrains, currentTime)

getNextTrainIndex(this, date) ==
    LET allTrains == getAllTrains(this, date)
        currentTime == currentTimeOf(date)
        nextTrainIndex == FindIndexAfter(allTrains, currentTime)
    IN  IF nextTrainIndex >= 0 THEN nextTrainIndex ELSE 0

\* timeInMinutes.find(time => time > currentTime) on the times in the order of the
\* data, which are not sorted here; undefined (no such time) gives null.
getNextTrain(this, date) ==
    LET currentTime == currentTimeOf(date)
        times == DirectionAt(this, Val(this.selectedDirection)).schedule.weekday.times
    IN  IF times = Undefined \/ Len(times) = 0 THEN Null
        ELSE LET timeInMinutes == [i \in 1..Len(times) |-> timeToMinutes(times[i])]
                 found == {i \in 1..Len(times) : timeInMinutes[i] > currentTime}
             IN  IF found = {} THEN Null
                 ELSE LET nextTime == timeInMinutes[CHOOSE i \in found :
                                                        \A j \in found : i <= j]
                      IN  Some([time |-> minutesToTime(nextTime), minutes |-> nextTime])

updateTrainInfo(this, date) ==
    LET allTrains == getAllTrains(this, date)
        currentTrain == At(allTrains, this.currentTrainIndex)
    IN  IF currentTrain = Null
        THEN [this EXCEPT !.trainTimeEl.textContent = T("trainTimeDefault", <<>>),
                          !.countdownEl.textContent = T("noService", <<>>)]
        ELSE [this EXCEPT !.trainTimeEl =
                 [textContent |-> Literal(Val(currentTrain).time),
                  departed |-> Val(currentTrain).isPast]]

\* A countdown text that adds the seconds of the current minute.
CountdownTextSecondsAdded(timeDiff, currentSeconds) ==
    LET totalSeconds == timeDiff * 60 + currentSeconds
        minutes == totalSeconds \div 60
        seconds == NumberToString(totalSeconds % 60)
    IN  IF minutes < 1 THEN T("departsInSeconds", <<totalSeconds>>)
        ELSE T("departsIn", <<minutes, seconds>>)

\* A countdown text in whole minutes: the seconds of the clock are not subtracted.
CountdownTextWholeMinutes(timeDiff, currentSeconds) ==
    LET totalSeconds == timeDiff * 60
        minutes == totalSeconds \div 60
        seconds == NumberToString(totalSeconds % 60)
    IN  IF minutes < 1 THEN T("departsInSeconds", <<totalSeconds>>)
        ELSE T("departsIn", <<minutes, seconds>>)

\* A countdown text without the seconds-only form: minutes and seconds always.
CountdownTextAlwaysMinutes(timeDiff, currentSeconds) ==
    LET totalSeconds == timeDiff * 60 - currentSeconds
        minutes == totalSeconds \div 60
        seconds == NumberToString(totalSeconds % 60)
    IN  T("departsIn", <<minutes, seconds>>)

\* The text of a countdown to a train of a later minute: the minutes are a number and
\* the seconds the string String(totalSeconds % 60).
CountdownText(timeDiff, currentSeconds) ==
    LET totalSeconds == timeDiff * 60 - currentSeconds
        minutes == totalSeconds \div 60
        seconds == NumberToString(totalSeconds % 60)
    IN  IF minutes < 1 THEN T("departsInSeconds", <<totalSeconds>>)
        ELSE T("departsIn", <<minutes, seconds>>)

\* An active countdown without the case of the train of the current minute.
ActiveCountdownNoSameMinute(timeDiff, currentSeconds) ==
    [textContent |-> CountdownText(timeDiff, currentSeconds), departed |-> FALSE]

\* The countdown element for a train that has not departed: the departed class is
\* removed, and the text is the departing one in the minute of the train.
ActiveCountdown(timeDiff, currentSeconds) ==
    [textContent |-> IF timeDiff = 0 THEN T("departing", <<>>)
                     ELSE CountdownText(timeDiff, currentSeconds),
     departed |-> FALSE]

\* An updateCountdown for which the train has departed in its own minute already.
updateCountdownDepartedInMinute(this, date) ==
    LET allTrains == getAllTrains(this, date)
        currentTrain == At(allTrains, this.currentTrainIndex)
        currentMinutes == date.h * 60 + date.m
        currentSeconds == date.s
    IN  IF currentTrain = Null
        THEN [this EXCEPT !.countdownEl.textContent = T("noService", <<>>)]
        ELSE LET timeDiff == Val(currentTrain).minutes - currentMinutes
             IN  IF timeDiff <= 0
                 THEN [this EXCEPT !.countdownEl =
                          [textContent |-> T("trainDeparted", <<>>), departed |-> TRUE]]
                 ELSE [this EXCEPT !.countdownEl = ActiveCountdown(timeDiff, currentSeconds)]

\* An updateCountdown for which the train has departed one second after its time.
updateCountdownDepartedBySecond(this, date) ==
    LET allTrains == getAllTrains(this, date)
        currentTrain == At(allTrains, this.currentTrainIndex)
        currentMinutes == date.h * 60 + date.m
        currentSeconds == date.s
    IN  IF currentTrain = Null
        THEN [this EXCEPT !.countdownEl.textContent = T("noService", <<>>)]
        ELSE LET timeDiff == Val(currentTrain).minutes - currentMinutes
             IN  IF timeDiff * 60 - currentSeconds < 0
                 THEN [this EXCEPT !.countdownEl =
                          [textContent |-> T("trainDeparted", <<>>), departed |-> TRUE]]
                 ELSE [this EXCEPT !.countdownEl = ActiveCountdown(timeDiff, currentSeconds)]

updateCountdown(this, date) ==
    LET allTrains == getAllTrains(this, date)
        currentTrain == At(allTrains, this.currentTrainIndex)
        currentMinutes == date.h * 60 + date.m
        currentSeconds == date.s
    IN  IF currentTrain = Null
        THEN [this EXCEPT !.countdownEl.textContent = T("noService", <<>>)]
        ELSE LET timeDiff == Val(currentTrain).minutes - currentMinutes
             IN  IF timeDiff < 0
                 THEN [this EXCEPT !.countdownEl =
                          [textContent |-> T("trainDeparted", <<>>), departed |-> TRUE]]
                 ELSE [this EXCEPT !.countdownEl = ActiveCountdown(timeDiff, currentSeconds)]

\* A showPreviousTrain without the return on an empty train list.
showPreviousTrainUnguarded(this, date) ==
    LET allTrains == getAllTrains(this, date)
    IN  updateTrainInfo(
            [this EXCEPT !.currentTrainIndex =
                IF this.currentTrainIndex > 0 THEN this.currentTrainIndex - 1
                ELSE Len(allTrains) - 1],
            date)

showPreviousTrain(this, date) ==
    LET allTrains == getAllTrains(this, date)
    IN  IF Len(allTrains) = 0 THEN this
        ELSE updateTrainInfo(
                 [this EXCEPT !.currentTrainIndex =
                     IF this.currentTrainIndex > 0 THEN this.currentTrainIndex - 1
                     ELSE Len(allTrains) - 1],
                 date)

\* A showNextTrain that does not cycle to the first train.
showNextTrainNoCycle(this, date) ==
    LET allTrains == getAllTrains(this, date)
    IN  IF Len(allTrains) = 0 THEN this
        ELSE updateTrainInfo(
                 [this EXCEPT !.currentTrainIndex = this.currentTrainIndex + 1], date)

showNextTrain(this, date) ==
    LET allTrains == getAllTrains(this, date)
    IN  IF Len(allTrains) = 0 THEN this
        ELSE updateTrainInfo(
                 [this EXCEPT !.currentTrainIndex =
                     IF this.currentTrainIndex < Len(allTrains) - 1
                     THEN this.currentTrainIndex + 1
                     ELSE 0],
                 date)

\* A click on an arrow runs every listener setupClickGestures has added to it.
RECURSIVE ClickLeft(_, _, _)
ClickLeft(this, date, n) ==
    IF n = 0 THEN this ELSE ClickLeft(showPreviousTrain(this, date), date, n - 1)

RECURSIVE ClickRight(_, _, _)
ClickRight(this, date, n) ==
    IF n = 0 THEN this ELSE ClickRight(showNextTrain(this, date), date, n - 1)

\* A selectLine that leaves the train index where it is.
selectLineKeepsIndex(this, date, line) ==
    updateTrainInfo([this EXCEPT !.selectedLine = Some(line),
                                 !.selectedDirection = Some(FirstDirection(line))], date)

\* A selectLine that leaves the direction where it is.
selectLineKeepsDirection(this, date, line) ==
    LET chosen == [this EXCEPT !.selectedLine = Some(line)]
    IN  updateTrainInfo(
            [chosen EXCEPT !.currentTrainIndex = getNextTrainIndex(chosen, date)], date)

selectLine(this, date, line) ==
    LET chosen == [this EXCEPT !.selectedLine = Some(line),
                               !.selectedDirection = Some(FirstDirection(line))]
    IN  updateTrainInfo(
            [chosen EXCEPT !.currentTrainIndex = getNextTrainIndex(chosen, date)], date)

\* A selectDirection that leaves the train index where it is.
selectDirectionKeepsIndex(this, date, direction) ==
    updateTrainInfo([this EXCEPT !.selectedDirection = Some(direction)], date)

selectDirection(this, date, direction) ==
    LET chosen == [this EXCEPT !.selectedDirection = Some(direction)]
    IN  updateTrainInfo(
            [chosen EXCEPT !.currentTrainIndex = getNextTrainIndex(chosen, date)], date)

\* setupUI: the display of the train (the selectors and the station name are not
\* modelled) and the click listeners on the arrows.
setupUI(this, date) ==
    LET shown == updateTrainInfo(this, date)
    IN  [shown EXCEPT !.listeners = shown.listeners + 1]

\* startCountdown: the countdown is shown at once and a timer started.
startCountdown(this, date) ==
    LET shown == updateCountdown(this, date)
    IN  [shown EXCEPT !.timers = shown.timers + 1]

\* Latitudes and longitudes being on one meridian (see RoutesData), the haversine
\* distance is R * |lat2 - lat1| * (pi / 180); the unit here is R * (pi / 180) / 10000.
calculateDistance(lat1, lng1, lat2, lng2) == Abs(lat2 - lat1)

\* The station, the line and the direction become the station at place (held as `held`),
\* its first line and that line's first direction, and the train index the next train.
SelectFirst(this, date, held) ==
    LET line == FirstLine(held.station)
        chosen == [this EXCEPT !.nearestStation = Some(held),
                               !.selectedLine = Some(line),
                               !.selectedDirection = Some(FirstDirection(line))]
    IN  [chosen EXCEPT !.currentTrainIndex = getNextTrainIndex(chosen, date)]

\* A scan that replaces its candidate by a station just as near: the last of the
\* nearest stations.
NearestPlaceLastOfTies(this) ==
    LET stations == Val(this.data).stations
        location == Val(this.userLocation)
        Distance(i) == calculateDistance(location.lat, location.lng,
                                         stations[i].lat, stations[i].lng)
    IN  CHOOSE i \in 1..Len(stations) :
            /\ \A j \in 1..Len(stations) : ~(Distance(j) < Distance(i))
            /\ \A j \in (i + 1)..Len(stations) : Distance(i) < Distance(j)

\* The place of the first station nearest to the user: the scan of findNearestStation,
\* which replaces its candidate only by a strictly nearer station.
NearestPlace(this) ==
    LET stations == Val(this.data).stations
        location == Val(this.userLocation)
        Distance(i) == calculateDistance(location.lat, location.lng,
                                         stations[i].lat, stations[i].lng)
    IN  CHOOSE i \in 1..Len(stations) :
            /\ \A j \in 1..Len(stations) : ~(Distance(j) < Distance(i))
            /\ \A j \in 1..(i - 1) : Distance(i) < Distance(j)

\* nearest is a copy of the station, { ...station, distance }.
findNearestStation(this, date) ==
    LET place == NearestPlace(this)
        station == Val(this.data).stations[place]
        location == Val(this.userLocation)
        distance == calculateDistance(location.lat, location.lng, station.lat, station.lng)
    IN  SelectFirst(this, date, [station |-> place, copy |-> TRUE, distance |-> Some(distance)])

\* The place of the station of that name: stations.find(s => s.name === stationName).
StationPlace(this, stationName) ==
    LET stations == Val(this.data).stations
    IN  CHOOSE i \in 1..Len(stations) :
            /\ stations[i].name = stationName
            /\ \A j \in 1..(i - 1) : stations[j].name # stationName

\* nearestStation is the catalog's own station object: its distance is written
\* into the catalog.
selectStationManually(this, date, stationName) ==
    LET place == StationPlace(this, stationName)
        found == [this EXCEPT !.data[1].stations[place].distance = Some(0)]
        chosen == SelectFirst(found, date,
                              [station |-> place, copy |-> FALSE, distance |-> Some(0)])
    IN  startCountdown(setupUI(chosen, date), date)

DistanceTo(this, place) ==
    IF this.userLocation # Null
    THEN LET station == Val(this.data).stations[place]
             location == Val(this.userLocation)
         IN  calculateDistance(location.lat, location.lng, station.lat, station.lng)
    ELSE 0

\* A selectStationFromList cut after its first assignments: the station is the new
\* one, the line, the direction and the train index are still those of before, and
\* the timer is started.
selectStationFromListStationOnly(this, date, stationName) ==
    LET place == StationPlace(this, stationName)
        distance == DistanceTo(this, place)
        found == [this EXCEPT !.data[1].stations[place].distance = Some(distance)]
    IN  startCountdown(
            [found EXCEPT !.nearestStation =
                Some([station |-> place, copy |-> FALSE, distance |-> Some(distance)])],
            date)

selectStationFromList(this, date, stationName) ==
    LET place == StationPlace(this, stationName)
        distance == DistanceTo(this, place)
        found == [this EXCEPT !.data[1].stations[place].distance = Some(distance)]
        chosen == SelectFirst(found, date,
                              [station |-> place, copy |-> FALSE, distance |-> Some(distance)])
    IN  startCountdown(updateTrainInfo(chosen, date), date)

\* The station name is shown again in place of the input, and cleanupStationEdit
\* removes the suggestions.
selectStationFromInput(this, date, stationName) ==
    LET place == StationPlace(this, stationName)
        distance == DistanceTo(this, place)
        found == [this EXCEPT !.data[1].stations[place].distance = Some(distance)]
        chosen == SelectFirst(found, date,
                              [station |-> place, copy |-> FALSE, distance |-> Some(distance)])
    IN  [updateTrainInfo(chosen, date) EXCEPT !.editInput = Null, !.editResults = <<>>]

\* str.trim(): str without the spaces at its ends.
RECURSIVE Trim(_)
Trim(str) ==
    IF str = <<>> THEN str
    ELSE IF str[1] = " " THEN Trim(Tail(str))
    ELSE IF str[Len(str)] = " " THEN Trim(SubSeq(str, 1, Len(str) - 1))
    ELSE str

\* An includes that takes a capital for its small letter.
includesIgnoringCase(str, search) ==
    LET Lower(c) == IF c = "A" THEN "a" ELSE c
        Folded(x) == [i \in 1..Len(x) |-> Lower(x[i])]
    IN  \E i \in 0..(Len(str) - Len(search)) :
            SubSeq(Folded(str), i + 1, i + Len(search)) = Folded(search)

\* str.includes(search): search occurs in str, letter for letter.
includes(str, search) ==
    \E i \in 0..(Len(str) - Len(search)) : SubSeq(str, i + 1, i + Len(search)) = search

\* this.data.stations.filter(station => station.name.includes(query)), as names.
FilterStations(this, query) ==
    LET filtered == SelectSeq(Val(this.data).stations, LAMBDA station : includes(station.name, query))
    IN  [i \in 1..Len(filtered) |-> filtered[i].name]

\* The suggestions of the station name edit are the first ones only: .slice(0, 8).
MaxSuggestions == 8

\* The input listener of the search of the location fallback.
stationInputChanged(this, value) ==
    LET query == Trim(value)
        typed == [this EXCEPT !.stationInput = Some(value)]
    IN  IF query = <<>> THEN [typed EXCEPT !.searchResults = <<>>]
        ELSE [typed EXCEPT !.searchResults = FilterStations(this, query)]

\* The input listener of the station name while it is edited.
stationNameInputChanged(this, value) ==
    LET query == Trim(value)
        typed == [this EXCEPT !.editInput = Some(value)]
        matches == FilterStations(this, query)
        filtered == SubSeq(matches, 1, IF Len(matches) < MaxSuggestions
                                       THEN Len(matches) ELSE MaxSuggestions)
    IN  IF query = <<>> THEN [typed EXCEPT !.editResults = <<>>]
        ELSE [typed EXCEPT !.editResults = filtered]

\* showError(message): the message is shown in place of the application.
showError(this, message) == [this EXCEPT !.errorEl = Some(message)]

\* The message of the TypeError a read of a property of null throws: the text is the
\* JavaScript engine's.
TypeErrorMessage == Literal(<<"TypeError">>)

\* translateUI, on a change of language.
translateUI(this, date) ==
    IF this.nearestStation # Null THEN updateTrainInfo(this, date) ELSE this

----------------------------------------------------------------------------
(* The session: the events of the page. *)

\* The page is opened, at any time, on one of the timetables.
InitOn(timetables) ==
    /\ schedules \in timetables
    /\ now \in Clock
    /\ pc = "loadData"
    /\ app = NewApp

Init == InitOn(Datasets)

\* The wall clock moves on, within the day.
AdvanceClock ==
    /\ \E date \in Clock : SecondsOfDay(date) > SecondsOfDay(now) /\ now' = date
    /\ UNCHANGED <<schedules, pc, app>>

\* init(): both files are fetched, parsed and merged; the location is requested.
LoadData ==
    /\ pc = "loadData"
    /\ app' = [app EXCEPT !.data = Some(mergeData(RoutesData, schedules))]
    /\ pc' = "getUserLocation"
    /\ UNCHANGED <<schedules, now>>

\* An init that shows the error of loadData and goes on to the location request.
LoadDataFailsGoesOn ==
    /\ pc = "loadData"
    /\ app' = showError(app, T("dataLoadFailed", <<>>))
    /\ pc' = "getUserLocation"
    /\ UNCHANGED <<schedules, now>>

\* init(): a fetch fails or a line does not parse; the error is shown.
LoadDataFails ==
    /\ pc = "loadData"
    /\ app' = showError(app, T("dataLoadFailed", <<>>))
    /\ pc' = "error"
    /\ UNCHANGED <<schedules, now>>

\* An init that goes on without a station when the catalog is empty.
LocationFoundAtSilent(locations) ==
    /\ pc = "getUserLocation"
    /\ \E location \in locations :
           LET located == [app EXCEPT !.userLocation = Some(location)]
           IN  IF Len(Val(app.data).stations) = 0
               THEN /\ app' = located
                    /\ pc' = "running"
               ELSE /\ app' = startCountdown(setupUI(findNearestStation(located, now), now), now)
                    /\ pc' = "running"
    /\ UNCHANGED <<schedules, now>>

\* init(): the location arrives, at one of locations; findNearestStation, setupUI,
\* startCountdown.  With an empty catalog nearest stays null, nearest.lines throws a
\* TypeError before any selection is made, and init shows its message.
LocationFoundAt(locations) ==
    /\ pc = "getUserLocation"
    /\ \E location \in locations :
           LET located == [app EXCEPT !.userLocation = Some(location)]
           IN  IF Len(Val(app.data).stations) = 0
               THEN /\ app' = showError(located, TypeErrorMessage)
                    /\ pc' = "error"
               ELSE /\ app' = startCountdown(setupUI(findNearestStation(located, now), now), now)
                    /\ pc' = "running"
    /\ UNCHANGED <<schedules, now>>

LocationFound == LocationFoundAt(UserLocations)

\* The ways the location request fails: no navigator.geolocation, the three error
\* codes of the Geolocation API, and any other code.
LocationErrors == {"unsupported", "denied", "unavailable", "timeout", "other"}

\* The message of the Error that getUserLocation rejects with.
LocationErrorMessage(error) ==
    CASE error = "unsupported" -> T("locationNotSupported", <<>>)
      [] error = "denied" -> T("locationPermissionDenied", <<>>)
      [] error = "unavailable" -> T("locationUnavailable", <<>>)
      [] error = "timeout" -> T("locationTimeout", <<>>)
      [] OTHER -> T("locationFailed", <<>>)

\* An init without the inner catch: the rejection reaches showError(error.message).
LocationRejectedShown(error) ==
    /\ pc = "getUserLocation"
    /\ app' = showError(app, LocationErrorMessage(error))
    /\ pc' = "error"
    /\ UNCHANGED <<schedules, now>>

\* An init whose inner catch also starts the timer (setInterval), with no station.
LocationRejectedTicking(error) ==
    /\ pc = "getUserLocation"
    /\ app' = [app EXCEPT !.timers = app.timers + 1]
    /\ pc' = "fallback"
    /\ UNCHANGED <<schedules, now>>

\* init(): getUserLocation rejects; the inner catch drops the error and shows the
\* station search (showLocationFallback), and init returns.
LocationRejected(error) ==
    /\ pc = "getUserLocation"
    /\ LocationErrorMessage(error) # Null
    /\ pc' = "fallback"
    /\ UNCHANGED <<schedules, now, app>>

\* init(): the location request fails; the station search is shown instead.
LocationFails == \E error \in LocationErrors : LocationRejected(error)

\* The names of the stations of the catalog, which the search and the list offer.
StationNamesOf(this) ==
    {Val(this.data).stations[i].name : i \in 1..Len(Val(this.data).stations)}

\* A station of the search results of the fallback is clicked.
SelectStationManually ==
    /\ pc = "fallback"
    /\ \E stationName \in StationNamesOf(app) :
           app' = selectStationManually(app, now, stationName)
    /\ pc' = "running"
    /\ UNCHANGED <<schedules, now>>

\* A station of the station list is clicked.
SelectStationFromList ==
    /\ pc = "running"
    /\ app.timers < MaxTimers
    /\ \E stationName \in StationNamesOf(app) :
           app' = selectStationFromList(app, now, stationName)
    /\ UNCHANGED <<schedules, now, pc>>

\* A station is chosen in the editable station name.
SelectStationFromInput ==
    /\ pc = "running"
    /\ \E stationName \in StationNamesOf(app) :
           app' = selectStationFromInput(app, now, stationName)
    /\ UNCHANGED <<schedules, now, pc>>

\* A value is typed in the search of the location fallback.
StationInputTyped ==
    /\ pc = "fallback"
    /\ \E value \in TypedValues : app' = stationInputChanged(app, value)
    /\ UNCHANGED <<schedules, now, pc>>

\* The station name is made editable, if it is not yet, and a value is typed in it.
StationNameTyped ==
    /\ pc = "running"
    /\ \E value \in TypedValues : app' = stationNameInputChanged(app, value)
    /\ UNCHANGED <<schedules, now, pc>>

\* A line button is clicked: the buttons are the lines of the selected station.
SelectLine ==
    /\ pc = "running"
    /\ LET place == Val(app.nearestStation).station
       IN  \E l \in 1..Len(Val(app.data).stations[place].lines) :
               app' = selectLine(app, now, [station |-> place, line |-> l])
    /\ UNCHANGED <<schedules, now, pc>>

\* A direction button is clicked: the buttons are the directions of the selected line.
SelectDirection ==
    /\ pc = "running"
    /\ LET line == Val(app.selectedLine)
       IN  \E d \in 1..Len(LineAt(app, line).directions) :
               app' = selectDirection(app, now,
                          [station |-> line.station, line |-> line.line, direction |-> d])
    /\ UNCHANGED <<schedules, now, pc>>

\* The left arrow is clicked.
PreviousTrainClicked ==
    /\ pc = "running"
    /\ app' = ClickLeft(app, now, app.listeners)
    /\ UNCHANGED <<schedules, now, pc>>

\* The right arrow is clicked.
NextTrainClicked ==
    /\ pc = "running"
    /\ app' = ClickRight(app, now, app.listeners)
    /\ UNCHANGED <<schedules, now, pc>>

\* A countdown timer fires.
Tick ==
    /\ app.timers > 0
    /\ app' = updateCountdown(app, now)
    /\ UNCHANGED <<schedules, now, pc>>

\* The language is toggled.
LanguageChanged ==
    /\ app' = translateUI(app, now)
    /\ UNCHANGED <<schedules, now, pc>>

Next ==
    \/ AdvanceClock
    \/ LoadData
    \/ LoadDataFails
    \/ LocationFound
    \/ LocationFails
    \/ SelectStationManually
    \/ SelectStationFromList
    \/ SelectStationFromInput
    \/ SelectLine
    \/ SelectDirection
    \/ PreviousTrainClicked
    \/ NextTrainClicked
    \/ Tick
    \/ LanguageChanged

Spec == Init /\ [][Next]_vars

\* The sessions on one direction: the timetable is one weekday record of any times, the
\* location is not available and the station is chosen once, in the search.
InitDeparture == InitOn(DirectionDatasets)

NextDeparture ==
    \/ AdvanceClock
    \/ LoadData
    \/ LoadDataFails
    \/ LocationFails
    \/ SelectStationManually
    \/ SelectLine
    \/ SelectDirection
    \/ PreviousTrainClicked
    \/ NextTrainClicked
    \/ Tick
    \/ LanguageChanged

SpecDeparture == InitDeparture /\ [][NextDeparture]_vars

\* The catalog sessions: the page is opened on any timetable of up to MaxRecords lines,
\* malformed lines included, and the location arrives, anywhere nearby, or does not.
OpeningTime == [h |-> 9, m |-> 59, s |-> 0]

InitCatalog ==
    /\ schedules \in CatalogDatasets
    /\ now = OpeningTime
    /\ pc = "loadData"
    /\ app = NewApp

LocationFoundNearby == LocationFoundAt(NearbyLocations)

NextCatalog ==
    \/ LoadData
    \/ LoadDataFails
    \/ LocationFoundNearby
    \/ LocationFails

SpecCatalog == InitCatalog /\ [][NextCatalog]_vars

\* The search sessions: the location is not available, a station is searched and
\* chosen, and then another is searched in the station name.
InitSearch ==
    /\ schedules \in SearchDatasets
    /\ now = OpeningTime
    /\ pc = "loadData"
    /\ app = NewApp

NextSearch ==
    \/ LoadData
    \/ LoadDataFails
    \/ LocationFails
    \/ StationInputTyped
    \/ SelectStationManually
    \/ StationNameTyped

SpecSearch == InitSearch /\ [][NextSearch]_vars

\* The network sessions: the page is opened on a timetable of two stations of two lines
\* each, and every event of the page but the passing of the minutes may follow.
InitNetwork ==
    /\ schedules \in NetworkDatasets
    /\ now \in NetworkClock
    /\ pc = "loadData"
    /\ app = NewApp

NextNetwork ==
    \/ LoadData
    \/ LoadDataFails
    \/ LocationFound
    \/ LocationFails
    \/ SelectStationManually
    \/ SelectStationFromList
    \/ SelectStationFromInput
    \/ SelectLine
    \/ SelectDirection
    \/ PreviousTrainClicked
    \/ NextTrainClicked
    \/ Tick
    \/ LanguageChanged

SpecNetwork == InitNetwork /\ [][NextNetwork]_vars

----------------------------------------------------------------------------
(* What the properties speak of. *)

\* The minute of the day a "HH:MM" string of the timetable names: the hour and minute
\* it was written from.
MinuteTable ==
    [timeStr \in TimeStrings |->
        CHOOSE n \in {h * 60 + m : h \in Hours, m \in Minutes} : minutesToTime(n) = timeStr]

MinuteOfDay(timeStr) == MinuteTable[timeStr]

\* A direction is selected.
Selected == pc = "running"

\* The weekday times of the selected direction, as the catalog holds them.
SelectedTimes == DirectionAt(app, Val(app.selectedDirection)).schedule.weekday.times

\* The current minute of the day.
NowMinutes == now.h * 60 + now.m

\* The train list of the selected direction and the selected slot of it.
Trains == getAllTrains(app, now)

Slot == At(Trains, app.currentTrainIndex)

SlotMinutes == MinuteOfDay(Val(Slot).time)

\* Some departure of the selected direction is strictly after the current minute.
HasFuture == \E i \in 1..Len(SelectedTimes) : MinuteOfDay(SelectedTimes[i]) > NowMinutes

\* The countdown element as a tick at this instant leaves it.
Ticked == updateCountdown(app, now).countdownEl

----------------------------------------------------------------------------
(* The properties. *)

\* C1: when some departure of the selected direction is strictly after the current
\* minute, getNextTrainIndex returns the smallest index of the sorted train list whose
\* slot is after the current minute: that slot is after it, every slot before it is
\* not, and it is the earliest of the departures after the current minute.
C1_NextIndexIsFirstFuture ==
    (Selected /\ HasFuture) =>
        LET i == getNextTrainIndex(app, now)
            trains == Trains
            times == SelectedTimes
        IN  /\ i >= 0 /\ i < Len(trains)
            /\ MinuteOfDay(trains[i + 1].time) > NowMinutes
            /\ \A j \in 0..(i - 1) : MinuteOfDay(trains[j + 1].time) <= NowMinutes
            /\ \A k \in 1..Len(times) :
                   MinuteOfDay(times[k]) > NowMinutes
                       => MinuteOfDay(trains[i + 1].time) <= MinuteOfDay(times[k])

\* C1 happens: the times are out of order, the first departure of the day is past and
\* the selection has set the train index to the next one.
C1_Witness ==
    /\ Selected /\ HasFuture
    /\ Len(SelectedTimes) = 2
    /\ MinuteOfDay(SelectedTimes[1]) > MinuteOfDay(SelectedTimes[2])
    /\ getNextTrainIndex(app, now) = 1
    /\ app.currentTrainIndex = 1

\* C2: when the train list is not empty and no slot is after the current minute,
\* getNextTrainIndex returns 0.
C2_WrapsToFirst ==
    (Selected /\ Len(SelectedTimes) > 0 /\ ~HasFuture) => getNextTrainIndex(app, now) = 0

\* C2 happens: two departures at different times, both past, and the index is 0.
C2_Witness ==
    /\ Selected /\ ~HasFuture
    /\ Len(SelectedTimes) = 2
    /\ MinuteOfDay(SelectedTimes[1]) # MinuteOfDay(SelectedTimes[2])
    /\ getNextTrainIndex(app, now) = 0
    /\ app.currentTrainIndex = 0

\* C3: when the selected slot is strictly after the current minute, updateCountdown
\* counts down: the departed marker is off and the text shows the total of
\* (slot minute - current minute) * 60 - current seconds, at least 1, either as the
\* seconds alone or as minutes and seconds with minutes * 60 + seconds the total and
\* 0 <= seconds < 60, the seconds being shown as their decimal string.
C3_CountingDown ==
    (Selected /\ Slot # Null) =>
        (SlotMinutes > NowMinutes =>
            LET totalSeconds == (SlotMinutes - NowMinutes) * 60 - now.s
                text == Ticked.textContent
            IN  /\ totalSeconds >= 1
                /\ ~Ticked.departed
                /\ text.key \in {"departsIn", "departsInSeconds"}
                /\ text.key = "departsInSeconds" => text.params = <<totalSeconds>>
                /\ text.key = "departsIn" =>
                       /\ Len(text.params) = 2
                       /\ text.params[2] = NumberToString(Number(text.params[2]))
                       /\ text.params[1] * 60 + Number(text.params[2]) = totalSeconds
                       /\ Number(text.params[2]) >= 0 /\ Number(text.params[2]) < 60)

\* C3 happens: the countdown shows 59 minutes 59 seconds to the selected slot, at this
\* clock reading.
C3_Witness ==
    /\ Selected /\ Slot # Null
    /\ SlotMinutes = NowMinutes + 60
    /\ now.s = 1
    /\ app.countdownEl = [textContent |-> T("departsIn", <<59, <<"5", "9">>>>), departed |-> FALSE]

\* C4: when the selected slot is in the current minute, updateCountdown shows the
\* departing text without the departed marker, whatever the current seconds.
C4_DepartingNow ==
    (Selected /\ Slot # Null) =>
        (SlotMinutes = NowMinutes =>
            Ticked = [textContent |-> T("departing", <<>>), departed |-> FALSE])

\* C4 happens: in the last second of the slot's minute the countdown shows departing.
C4_Witness ==
    /\ Selected /\ Slot # Null
    /\ SlotMinutes = NowMinutes
    /\ now.s = 59
    /\ app.countdownEl = [textContent |-> T("departing", <<>>), departed |-> FALSE]

\* C5: updateCountdown shows the departed text exactly when the selected slot is
\* strictly before the current minute.
C5_DepartedIffPast ==
    (Selected /\ Slot # Null) =>
        (Ticked.textContent = T("trainDeparted", <<>>) <=> SlotMinutes < NowMinutes)

\* C5 happens: the selected slot is one minute past and the countdown shows departed.
C5_Witness ==
    /\ Selected /\ Slot # Null
    /\ SlotMinutes = NowMinutes - 1
    /\ app.countdownEl = [textContent |-> T("trainDeparted", <<>>), departed |-> TRUE]

\* The clock is at least one second past the scheduled time of the selected slot.
PastScheduledTime == SecondsOfDay(now) >= SlotMinutes * 60 + 1

\* C6 as stated: when the clock is at least one second past the scheduled time of the
\* selected slot, the slot's own minute included, updateCountdown shows departed.
C6_DepartedOneSecondPast ==
    (Selected /\ Slot # Null) =>
        (PastScheduledTime => Ticked.textContent = T("trainDeparted", <<>>))

\* C6 amended: when the clock is at least one second past the scheduled time of the
\* selected slot, updateCountdown shows departing while the clock is in the slot's own
\* minute and departed from the next minute on.
C6_DepartedFromNextMinute ==
    (Selected /\ Slot # Null) =>
        (PastScheduledTime =>
            /\ SlotMinutes = NowMinutes =>
                   Ticked = [textContent |-> T("departing", <<>>), departed |-> FALSE]
            /\ SlotMinutes # NowMinutes =>
                   Ticked = [textContent |-> T("trainDeparted", <<>>), departed |-> TRUE])

\* C6 happens: one second past the scheduled time of the selected slot the countdown
\* shows departing.
C6_Witness ==
    /\ Selected /\ Slot # Null
    /\ SecondsOfDay(now) = SlotMinutes * 60 + 1
    /\ app.countdownEl.textContent = T("departing", <<>>)

\* C7: getAllTrains returns the slots of the weekday times, each once, in
\* non-decreasing order of the minute of the day, whatever the order of the times.
C7_TrainsSorted ==
    Selected =>
        LET trains == Trains
            times == SelectedTimes
        IN  /\ Len(trains) = Len(times)
            /\ \A k \in 1..Len(times) :
                   Cardinality({i \in 1..Len(trains) : trains[i].time = times[k]})
                       = Cardinality({i \in 1..Len(times) : times[i] = times[k]})
            /\ \A i \in 1..Len(trains) : trains[i].minutes = MinuteOfDay(trains[i].time)
            /\ \A i \in 1..(Len(trains) - 1) :
                   MinuteOfDay(trains[i].time) <= MinuteOfDay(trains[i + 1].time)

\* C7 happens: the times are in descending order and the train list is shown.
C7_Witness ==
    /\ Selected
    /\ Len(SelectedTimes) = 2
    /\ MinuteOfDay(SelectedTimes[1]) > MinuteOfDay(SelectedTimes[2])
    /\ app.trainTimeEl.textContent = Literal(Trains[app.currentTrainIndex + 1].time)

\* C8: on a train list of length n > 0 a click on the right arrow sets the train index
\* to (index + 1) mod n and a click on the left arrow to (index - 1) mod n: the last
\* slot wraps to the first and the first to the last.
C8_CyclicNavigation ==
    (Selected /\ Len(Trains) > 0) =>
        /\ ClickRight(app, now, app.listeners).currentTrainIndex
               = (app.currentTrainIndex + 1) % Len(Trains)
        /\ ClickLeft(app, now, app.listeners).currentTrainIndex
               = (app.currentTrainIndex - 1) % Len(Trains)

\* C8 happens: the second train of three is still to come, so that every selection so
\* far has set the index to 0 or 1, and the index is the last and its train is shown:
\* the arrows have moved it.
C8_Witness ==
    /\ Selected
    /\ Len(Trains) = 3
    /\ MinuteOfDay(Trains[2].time) > NowMinutes
    /\ app.currentTrainIndex = Len(Trains) - 1
    /\ app.trainTimeEl.textContent = Literal(Trains[Len(Trains)].time)

\* C9 as stated: on an empty train list getNextTrainIndex yields a result that is not
\* the index 0.
C9_EmptyIsNotIndexZero ==
    (Selected /\ Len(Trains) = 0) => getNextTrainIndex(app, now) # 0

\* C9 amended: on an empty train list getNextTrainIndex returns 0, showNextTrain and
\* showPreviousTrain change nothing, the train index is 0, and it is the display that
\* shows no service: the default train time and the no-service text.
C9_EmptyShowsNoService ==
    (Selected /\ Len(Trains) = 0) =>
        /\ getNextTrainIndex(app, now) = 0
        /\ showNextTrain(app, now) = app
        /\ showPreviousTrain(app, now) = app
        /\ app.currentTrainIndex = 0
        /\ app.trainTimeEl.textContent = T("trainTimeDefault", <<>>)
        /\ app.countdownEl.textContent = T("noService", <<>>)

\* C9 happens: a direction whose weekday record has no times is selected.
C9_Witness ==
    /\ Selected
    /\ Len(Trains) = 0
    /\ schedules[1].operating_time = Weekday
    /\ app.countdownEl.textContent = T("noService", <<>>)

\* The records of the timetable behind a direction of the catalog.
RecordsOf(station, line, direction) ==
    SelectSeq(schedules, LAMBDA r : /\ r.station = station.name
                                    /\ r.route = line.route
                                    /\ r.destination = direction.direction)

\* The schedule_times of the last weekday record among records, none if there is none.
LastWeekdayTimes(records) ==
    IF \E i \in 1..Len(records) : records[i].operating_time = Weekday
    THEN records[CHOOSE i \in 1..Len(records) :
                     /\ records[i].operating_time = Weekday
                     /\ \A j \in (i + 1)..Len(records) : records[j].operating_time # Weekday
                ].schedule_times
    ELSE <<>>

\* The selected direction is backed by records of other operating times only.
SelectedIsWeekendOnly ==
    LET ref == Val(app.selectedDirection)
        records == RecordsOf(StationAt(app, ref), LineAt(app, ref), DirectionAt(app, ref))
    IN  \A i \in 1..Len(records) : records[i].operating_time # Weekday

\* C10: a record whose operating time is not the weekday one contributes nothing to
\* the weekday times of its direction, which are those of the weekday records alone; a
\* direction backed by such records only has no weekday times, and while it is
\* selected the countdown shows no service, as every tick leaves it.
C10_WeekdayOnly ==
    /\ app.data # Null =>
           \A s \in 1..Len(Val(app.data).stations) :
               LET station == Val(app.data).stations[s]
               IN  \A l \in 1..Len(station.lines) :
                       \A d \in 1..Len(station.lines[l].directions) :
                           LET direction == station.lines[l].directions[d]
                           IN  direction.schedule.weekday.times
                                   = LastWeekdayTimes(RecordsOf(station, station.lines[l], direction))
    /\ (Selected /\ SelectedIsWeekendOnly) =>
           /\ SelectedTimes = <<>>
           /\ app.countdownEl.textContent = T("noService", <<>>)
           /\ Ticked.textContent = T("noService", <<>>)

\* C10 happens: a direction backed by a weekend record with times is selected, after a
\* weekday record of another direction, and a timer ticks.
C10_Witness ==
    /\ Selected /\ SelectedIsWeekendOnly
    /\ Len(schedules) = 2
    /\ schedules[1].operating_time = Weekday
    /\ Val(app.selectedDirection).direction = 2
    /\ app.timers > 0
    /\ app.countdownEl.textContent = T("noService", <<>>)

----------------------------------------------------------------------------
(* The catalog. *)

\* The catalog is built.
Loaded == app.data # Null

Stations == Val(app.data).stations

\* A record has the required fields, and all the records of the timetable do.
WellFormed(record) == \A f \in RequiredFields : record[f] # Undefined

WellFormedTimetable == \A i \in 1..Len(schedules) : WellFormed(schedules[i])

\* C11: of a timetable of at least one record, all well-formed, mergeData makes a
\* catalog with at least one station, in which every station has at least one line and
\* every line at least one direction.
C11_LinesAndDirections ==
    (Loaded /\ Len(schedules) > 0 /\ WellFormedTimetable) =>
        /\ Len(Stations) > 0
        /\ \A s \in 1..Len(Stations) :
               /\ Len(Stations[s].lines) > 0
               /\ \A l \in 1..Len(Stations[s].lines) :
                      Len(Stations[s].lines[l].directions) > 0

\* C11 happens: a timetable of three well-formed records of two stations, of which the
\* first has two lines and the second one, is merged.
C11_Witness ==
    /\ Loaded /\ WellFormedTimetable
    /\ Len(schedules) = 3
    /\ Len(Stations) = 2
    /\ Len(Stations[1].lines) = 2
    /\ Len(Stations[2].lines) = 1

\* The records i and j of the timetable are of one station, route and destination.
SameDirection(i, j) ==
    /\ schedules[i].station = schedules[j].station
    /\ schedules[i].route = schedules[j].route
    /\ schedules[i].destination = schedules[j].destination

\* The weekday times the catalog has for the direction of a record.
CatalogTimes(record) ==
    LET station == Stations[CHOOSE s \in 1..Len(Stations) : Stations[s].name = record.station]
        line == station.lines[CHOOSE l \in 1..Len(station.lines) :
                                  station.lines[l].route = record.route]
        direction == line.directions[CHOOSE d \in 1..Len(line.directions) :
                                         line.directions[d].direction = record.destination]
    IN  direction.schedule.weekday.times

\* C12: of the weekday records of one station, route and destination, the last in the
\* order of the timetable gives the weekday times of the direction, exactly: the earlier
\* ones and the records of other operating times in between leave nothing.
C12_LastWeekdayWins ==
    (Loaded /\ WellFormedTimetable) =>
        \A i \in 1..Len(schedules) :
            (/\ schedules[i].operating_time = Weekday
             /\ \A j \in (i + 1)..Len(schedules) :
                    SameDirection(i, j) => schedules[j].operating_time # Weekday)
                => CatalogTimes(schedules[i]) = schedules[i].schedule_times

\* C12 happens: two weekday records of different times for one direction, with a
\* weekend record of that direction between them, are merged.
C12_Witness ==
    /\ Loaded
    /\ Len(schedules) = 3
    /\ SameDirection(1, 2) /\ SameDirection(2, 3)
    /\ schedules[1].operating_time = Weekday
    /\ schedules[2].operating_time = Weekend
    /\ schedules[3].operating_time = Weekday
    /\ schedules[1].schedule_times # schedules[3].schedule_times
    /\ CatalogTimes(schedules[1]) = schedules[3].schedule_times

\* The first record of the timetable of a station of that name.
FirstSeen(name) ==
    CHOOSE i \in 1..Len(schedules) :
        /\ schedules[i].station = name
        /\ \A j \in 1..(i - 1) : schedules[j].station # name

\* C13: the catalog has one station for each station name of the records and no other,
\* in the order in which the names first occur; a station has one line for each route
\* of its records and no other, and a line one direction for each destination of its
\* records and no other.
C13_OnePerName ==
    (Loaded /\ WellFormedTimetable) =>
        /\ \A i \in 1..Len(schedules) :
               \E s \in 1..Len(Stations) : Stations[s].name = schedules[i].station
        /\ \A s \in 1..Len(Stations) :
               \E i \in 1..Len(schedules) : schedules[i].station = Stations[s].name
        /\ \A s, t \in 1..Len(Stations) :
               s < t => /\ Stations[s].name # Stations[t].name
                        /\ FirstSeen(Stations[s].name) < FirstSeen(Stations[t].name)
        /\ \A s \in 1..Len(Stations) :
               LET lines == Stations[s].lines
                   ofStation == {i \in 1..Len(schedules) : schedules[i].station = Stations[s].name}
               IN  /\ {lines[l].route : l \in 1..Len(lines)} = {schedules[i].route : i \in ofStation}
                   /\ \A l, m \in 1..Len(lines) : l # m => lines[l].route # lines[m].route
                   /\ \A l \in 1..Len(lines) :
                          LET directions == lines[l].directions
                              ofLine == {i \in ofStation : schedules[i].route = lines[l].route}
                          IN  /\ {directions[d].direction : d \in 1..Len(directions)}
                                     = {schedules[i].destination : i \in ofLine}
                              /\ \A d, e \in 1..Len(directions) :
                                     d # e => directions[d].direction # directions[e].direction

\* C13 happens: the first and the last of three records are of one station and the one
\* between them of another, and the catalog has the two stations.
C13_Witness ==
    /\ Loaded /\ WellFormedTimetable
    /\ Len(schedules) = 3
    /\ schedules[1].station = schedules[3].station
    /\ schedules[1].station # schedules[2].station
    /\ Len(Stations) = 2
    /\ Stations[1].name = schedules[1].station

\* C14 as stated: once the load has run on a timetable with a record that lacks a
\* required field, the session shows an error and holds no catalog.
C14_MalformedFailsMerge ==
    (pc # "loadData" /\ ~WellFormedTimetable) => (pc = "error" /\ app.data = Null)

\* The station of the session, while it is the one findNearestStation has found.
Nearest == Val(app.nearestStation)

Located == pc = "running" /\ app.userLocation # Null /\ Nearest.copy

\* The distance from the user to the station at a place of the catalog.
DistanceFromUser(place) ==
    Abs(Stations[place].lat - Val(app.userLocation).lat)

\* C15: on a catalog that is not empty findNearestStation selects a station whose
\* distance to the user is the least of all the stations, with that distance, and of
\* the stations at that distance the first of the catalog.
C15_NearestFirstOfTies ==
    Located =>
        /\ \A p \in 1..Len(Stations) : DistanceFromUser(Nearest.station) <= DistanceFromUser(p)
        /\ \A p \in 1..(Nearest.station - 1) :
               DistanceFromUser(p) # DistanceFromUser(Nearest.station)
        /\ Nearest.distance = Some(DistanceFromUser(Nearest.station))

\* C15 happens: of three stations the second and the third are as near and the first
\* is farther, and the second is selected.
C15_Witness ==
    /\ Located
    /\ Len(Stations) = 3
    /\ DistanceFromUser(2) = DistanceFromUser(3)
    /\ DistanceFromUser(2) < DistanceFromUser(1)
    /\ Nearest.station = 2

\* The catalog is empty and the location has arrived.
LocatedNowhere == Loaded /\ Len(Stations) = 0 /\ app.userLocation # Null

----------------------------------------------------------------------------
(* The search. *)

\* The place in the catalog of the station of a name.
PlaceOf(name) == CHOOSE s \in 1..Len(Stations) : Stations[s].name = name

\* query occurs in name, letter for letter.
Contains(name, query) ==
    \E i \in 1..Len(name) :
        /\ i + Len(query) - 1 <= Len(name)
        /\ \A k \in 1..Len(query) : name[i + k - 1] = query[k]

\* results are names of stations that contain query, in the order of the catalog.
MatchesInOrder(results, query) ==
    /\ \A k \in 1..Len(results) :
           /\ \E s \in 1..Len(Stations) : Stations[s].name = results[k]
           /\ Contains(results[k], query)
    /\ \A k, l \in 1..Len(results) : k < l => PlaceOf(results[k]) < PlaceOf(results[l])

\* results are the stations that contain query, all of them, in the order of the catalog.
AllMatches(results, query) ==
    /\ MatchesInOrder(results, query)
    /\ \A s \in 1..Len(Stations) :
           Contains(Stations[s].name, query)
               => \E k \in 1..Len(results) : results[k] = Stations[s].name

\* results are the first stations that contain query, up to limit of them.
FirstMatches(results, query, limit) ==
    /\ MatchesInOrder(results, query)
    /\ Len(results) <= limit
    /\ \A s \in 1..Len(Stations) :
           Contains(Stations[s].name, query)
               => \/ \E k \in 1..Len(results) : results[k] = Stations[s].name
                  \/ /\ Len(results) = limit
                     /\ \A k \in 1..Len(results) : PlaceOf(results[k]) < s

\* The query of the search of the location fallback and of the station name edit: what
\* is typed, without the spaces at its ends.
FallbackQuery == IF app.stationInput = Null THEN <<>> ELSE Trim(Val(app.stationInput))

EditQuery == IF app.editInput = Null THEN <<>> ELSE Trim(Val(app.editInput))

\* C17 as stated: for a query that is not empty, the search shows the stations whose
\* name contains it, all of them, in the order of the catalog, in the location fallback
\* and in the station name edit.
C17_AllMatchesEverywhere ==
    /\ FallbackQuery # <<>> => AllMatches(app.searchResults, FallbackQuery)
    /\ EditQuery # <<>> => AllMatches(app.editResults, EditQuery)

\* C17 amended: the search of the location fallback shows all the stations whose name
\* contains the query, in the order of the catalog; the station name edit shows the
\* first eight of them.
C17_AllMatchesOrFirstEight ==
    /\ FallbackQuery # <<>> => AllMatches(app.searchResults, FallbackQuery)
    /\ EditQuery # <<>> => FirstMatches(app.editResults, EditQuery, 8)

\* C17 happens: nine stations contain the query and a station with the capital does
\* not; the fallback has shown the nine and the station name edit shows eight.
C17_Witness ==
    /\ Loaded
    /\ FallbackQuery = <<"a">> /\ EditQuery = <<"a">>
    /\ \E s \in 1..Len(Stations) : Stations[s].name = <<"A">>
    /\ Len(app.searchResults) = 9
    /\ Len(app.editResults) = 8

----------------------------------------------------------------------------
(* The selection. *)

\* The train index is the next train of a list of trains at the current minute: the
\* first of a later minute, the first of all if there is none.
IsNextTrain(index, trains) ==
    IF \E i \in 1..Len(trains) : trains[i].minutes > NowMinutes
    THEN /\ index + 1 \in 1..Len(trains)
         /\ trains[index + 1].minutes > NowMinutes
         /\ \A i \in 1..index : trains[i].minutes <= NowMinutes
    ELSE index = 0

\* C18: selectLine(line) makes line the selected line, its first direction the selected
\* direction and the next train of that direction the train index, whatever the
\* direction and the index were, and leaves the selected station as it is.
C18_SelectLineResets ==
    [][SelectLine =>
          /\ app'.selectedLine # Null
          /\ Val(app'.selectedLine).station = Val(app.nearestStation).station
          /\ app'.selectedDirection = Some([station |-> Val(app'.selectedLine).station,
                                            line |-> Val(app'.selectedLine).line,
                                            direction |-> 1])
          /\ IsNextTrain(app'.currentTrainIndex, getAllTrains(app', now'))
          /\ app'.nearestStation = app.nearestStation]_vars

\* C18 happens: the second line of the first station is selected, which only selectLine
\* selects, with its first direction and its train of 10:00 after 09:59 is past.
C18_Witness ==
    /\ Selected
    /\ Stations[Nearest.station].name = <<"a">>
    /\ LineAt(app, Val(app.selectedLine)).route = <<"X">>
    /\ Val(app.selectedDirection).direction = 1
    /\ NowMinutes = 600
    /\ app.currentTrainIndex = 0
    /\ app.trainTimeEl.textContent = Literal(T0959)

\* C19: while a station is selected, the selected line is one of the lines of the
\* selected station and the selected direction one of the directions of the selected
\* line.
C19_SelectionConsistent ==
    app.nearestStation # Null =>
        /\ app.selectedLine # Null
        /\ app.selectedDirection # Null
        /\ LET line == Val(app.selectedLine)
               direction == Val(app.selectedDirection)
           IN  /\ line.station = Nearest.station
               /\ line.line \in 1..Len(Stations[Nearest.station].lines)
               /\ direction.station = line.station
               /\ direction.line = line.line
               /\ direction.direction \in 1..Len(LineAt(app, line).directions)

\* C19 happens: the second station is selected, in the list, after another selection,
\* and then its second line.
C19_Witness ==
    /\ Selected
    /\ Nearest.station = 2
    /\ ~Nearest.copy
    /\ app.timers = 2
    /\ Val(app.selectedLine).line = 2
    /\ Val(app.selectedDirection) = [station |-> 2, line |-> 2, direction |-> 1]

\* C20 as stated: once the load has built it, the catalog stays as mergeData has made
\* it, whatever station is selected and however.
C20_CatalogNeverModified ==
    Loaded => Val(app.data) = mergeData(RoutesData, schedules)

\* C28: at most one periodic countdown timer is live at any time, whatever stations
\* were selected (by the locator, the fallback search, the station list or the
\* inline input): the intervals started by startCountdown and not cleared are at
\* most one.
C28_AtMostOneTimer == app.timers <= 1

\* C30: getNextTrain returns the earliest weekday departure strictly after the
\* current minute of the day, whatever the order of the direction's times, and null
\* exactly when there is none; when there is one, its minutes are those of
\* getAllTrains()[getNextTrainIndex()].
C30_NextTrainIsEarliest ==
    Selected =>
        LET nextTrain == getNextTrain(app, now)
            future == {MinuteOfDay(SelectedTimes[i]) : i \in 1..Len(SelectedTimes)}
                          \cap {t \in 0..1439 : t > NowMinutes}
        IN  /\ (nextTrain = Null) <=> (future = {})
            /\ nextTrain # Null =>
                   /\ \A t \in future : Val(nextTrain).minutes <= t
                   /\ Val(nextTrain).minutes =
                          Val(At(Trains, getNextTrainIndex(app, now))).minutes

\* C27: in every state reached by station, line and direction selections, arrow
\* clicks, language changes and ticks, the train index is at least 0 and less than
\* the number n of weekday times of the selected direction when n > 0, and is 0 when
\* the direction has no weekday times.
C27_IndexInRange ==
    Selected =>
        LET n == IF SelectedTimes = Undefined THEN 0 ELSE Len(SelectedTimes)
        IN  IF n > 0
            THEN 0 <= app.currentTrainIndex /\ app.currentTrainIndex < n
            ELSE app.currentTrainIndex = 0

\* The last of three trains is shown, while a timer runs.
C27_Witness ==
    /\ Selected
    /\ app.timers > 0
    /\ SelectedTimes # Undefined
    /\ Len(SelectedTimes) = 3
    /\ app.currentTrainIndex = 2

C29_CountdownMovesForward ==
    [][((AdvanceClock \/ Tick) /\ Selected /\ Slot # Null) =>
          LET Phase(text) == IF text.key \in {"departsIn", "departsInSeconds"} THEN 1
                             ELSE IF text.key = "departing" THEN 2
                             ELSE IF text.key = "trainDeparted" THEN 3
                             ELSE 0
              Total(text) == IF text.key = "departsInSeconds" THEN text.params[1]
                             ELSE text.params[1] * 60 + Number(text.params[2])
              before == Ticked.textContent
              after == updateCountdown(app', now').countdownEl.textContent
          IN  /\ Phase(before) >= 1
              /\ Phase(after) >= Phase(before)
              /\ (Phase(before) = 1 /\ Phase(after) = 1) =>
                     Total(before) - Total(after) = SecondsOfDay(now') - SecondsOfDay(now)
    ]_vars

\* C29 happens: a tick showed one minute to the departure, the clock has moved into
\* the slot's minute and the next tick of the running timer shows departing.
C29_Witness ==
    /\ Selected /\ Slot # Null
    /\ app.timers > 0
    /\ app.countdownEl.textContent = T("departsIn", <<1, <<"0">>>>)
    /\ SlotMinutes = NowMinutes
    /\ Ticked.textContent = T("departing", <<>>)

\* C24: every location outcome other than success (geolocation unsupported,
\* permission denied, position unavailable, timeout) leads to the same state: the
\* station search is shown, no station, line or direction is selected, no timer is
\* started, and showError has shown nothing.
C24_LocationFailureFallsBack ==
    [][\A error \in LocationErrors :
          LocationRejected(error) =>
              /\ pc' = "fallback"
              /\ app'.userLocation = Null
              /\ app'.nearestStation = Null
              /\ app'.selectedLine = Null
              /\ app'.selectedDirection = Null
              /\ app'.timers = 0
              /\ app'.errorEl = Null
              /\ app'.data = app.data
    ]_vars

\* C24 happens: the catalog is loaded, the location request has failed and the station
\* search is shown, with no station and no timer.
C24_Witness ==
    /\ pc = "fallback"
    /\ app.data # Null
    /\ Len(Val(app.data).stations) > 0
    /\ app.nearestStation = Null
    /\ app.timers = 0
    /\ app.errorEl = Null

\* C25: when loading or parsing a dataset fails, initialization stops: the error is
\* shown, once, the catalog stays unset, no location is requested, no station, line or
\* direction is selected and no timer is started, and that stays so for the rest of
\* the session.
C25_LoadFailureStopsInit ==
    [][LET Stopped(state, this) ==
               /\ state = "error"
               /\ this.errorEl = Some(T("dataLoadFailed", <<>>))
               /\ this.data = Null
               /\ this.userLocation = Null
               /\ this.nearestStation = Null
               /\ this.selectedLine = Null
               /\ this.selectedDirection = Null
               /\ this.timers = 0
               /\ this.listeners = 0
       IN  /\ LoadDataFails => Stopped(pc', app')
           /\ Stopped(pc, app) => Stopped(pc', app')
    ]_vars

\* C25 happens: the load has failed, the error is shown on the empty application and
\* the clock has moved on to the last reading of the day.
C25_Witness ==
    /\ pc = "error"
    /\ app.errorEl = Some(T("dataLoadFailed", <<>>))
    /\ app.data = Null
    /\ app.timers = 0
    /\ \A date \in Clock : SecondsOfDay(date) <= SecondsOfDay(now)

\* C22: after any sequence of operations a tick completes without throwing: while a
\* timer is live the catalog is loaded and the selected station, line and direction
\* are set and are entries of the catalog, so that updateCountdown reads no property
\* of null; and a tick that finds no train at the train index (the selection has no
\* train to show) changes nothing.
C22_TicksNeverThrow ==
    app.timers > 0 =>
        /\ app.data # Null
        /\ app.nearestStation # Null
        /\ app.selectedLine # Null
        /\ app.selectedDirection # Null
        /\ LET stations == Val(app.data).stations
               path == Val(app.selectedDirection)
           IN  /\ path.station \in 1..Len(stations)
               /\ path.line \in 1..Len(stations[path.station].lines)
               /\ path.direction \in
                      1..Len(stations[path.station].lines[path.line].directions)
               /\ Val(app.selectedLine) = [station |-> path.station, line |-> path.line]
               /\ Val(app.nearestStation).station = path.station
        /\ Slot = Null => updateCountdown(app, now) = app

\* C22 happens: a timer is live on a direction without weekday trains, after a tick
\* that took place when the countdown still showed a departed train.
C22_Witness ==
    /\ app.timers > 0
    /\ Selected
    /\ Slot = Null
    /\ app.countdownEl = [textContent |-> T("noService", <<>>), departed |-> TRUE]

\* C21: a tick leaves the selected station, line, direction, train index and the
\* catalog unchanged, and what it shows is a function of the selected direction, the
\* train index and the clock reading only: whatever the countdown showed before, the
\* tick shows what it shows on a fresh countdown element.
C21_TickDependsOnSelectionOnly ==
    (Selected /\ app.timers > 0) =>
        LET ticked == updateCountdown(app, now)
            fresh == updateCountdown([app EXCEPT !.countdownEl = InitialElement], now)
        IN  /\ ticked.data = app.data
            /\ ticked.nearestStation = app.nearestStation
            /\ ticked.selectedLine = app.selectedLine
            /\ ticked.selectedDirection = app.selectedDirection
            /\ ticked.currentTrainIndex = app.currentTrainIndex
            /\ ticked.countdownEl = fresh.countdownEl

\* C23: a change of selection is applied as a whole before any tick runs: the state a
\* tick reads, and the state it leaves, has the selected line among the lines of the
\* selected station, the selected direction among the directions of that line, and
\* the train index and the train time shown those of that direction (the slot at the
\* index, or the default text when the direction has no train there), never those of
\* the selection before.
C23_TicksSeeWholeSelection ==
    [][Tick =>
          LET Whole(this, date) ==
                  LET station == Val(this.nearestStation)
                      line == Val(this.selectedLine)
                      direction == Val(this.selectedDirection)
                      trains == getAllTrains(this, date)
                      index == this.currentTrainIndex
                  IN  /\ line.station = station.station
                      /\ direction.station = line.station
                      /\ direction.line = line.line
                      /\ direction.direction \in 1..Len(LineAt(this, line).directions)
                      /\ IF Len(trains) = 0
                         THEN /\ index = 0
                              /\ this.trainTimeEl.textContent = T("trainTimeDefault", <<>>)
                         ELSE /\ index \in 0..(Len(trains) - 1)
                              /\ this.trainTimeEl.textContent = Literal(trains[index + 1].time)
          IN  Whole(app, now) /\ Whole(app', now')
    ]_vars

\* C23 happens: the second station was selected in the list after another selection
\* (two timers are live), its first line and direction are the selected ones, and a
\* tick shows the only train of that direction, departing.
C23_Witness ==
    /\ Selected
    /\ app.timers = 2
    /\ Nearest.station = 2
    /\ Val(app.selectedDirection) = [station |-> 2, line |-> 1, direction |-> 1]
    /\ app.trainTimeEl.textContent = Literal(T0900)
    /\ app.countdownEl = [textContent |-> T("departing", <<>>), departed |-> FALSE]

====
